---- MODULE Spec2Model ----
(***************************************************************************)
(* Model of the crypto_dashboard repository: the tracker's polling loop    *)
(* (crypto_tracker.py), the crypto_prices table it appends to, and the     *)
(* read-side utilities (crypto_dashboard.py, crypto_visualizer.py,         *)
(* query_data.py) that query the table.                                    *)
(*                                                                         *)
(* Time is counted in clock ticks of 1/SubPerSec second.  The wall clock   *)
(* is what datetime.now() reads, naive local time: it goes on while the    *)
(* loop sleeps and may be set back meanwhile.  A stored timestamp is the   *)
(* text that strftime("%Y-%m-%d %H:%M:%S") writes; the date and hour are   *)
(* the same for every instant within the bounds, so the text is modelled   *)
(* by its "MM:SS" part, as the sequence of its four digits.                *)
(***************************************************************************)
EXTENDS Integers, Sequences, FiniteSets

\* ---------------------------------------------------------------- bounds
MaxCycles == 2      \* fetches issued by one run of the tracker
MaxInterval == 2    \* run(interval): interval in 0..MaxInterval ticks
MaxLookback == 1    \* readers look back 0..MaxLookback seconds (the hours argument)
MaxSamples == 2     \* cycles stored in the databases the price change is examined over
SubPerSec == 2      \* clock ticks per second
StartSec == 58      \* second of the hour at which the tracker is started
MaxSetBack == 1     \* seconds the wall clock may be set back during one sleep

\* ------------------------------------------------------------- constants
\* for crypto in ['bitcoin', 'ethereum']
Cryptos == <<"bitcoin", "ethereum">>

Assets == {Cryptos[i] : i \in 1..Len(Cryptos)}

\* Values the API reports: "usd" (a price of 0 included), "usd_market_cap" and
\* "usd_24h_vol".
Prices == {0, 1}

MarketCaps == {10}

Volumes == {20}

\* A JSON body: one entry per asset id the response carries.
Entries == [id : Assets, usd : Prices, usd_market_cap : MarketCaps, usd_24h_vol : Volumes]

Bodies == {b \in SUBSET Entries : \A e1, e2 \in b : e1.id = e2.id => e1 = e2}

\* Status codes of the responses: a success, one below 400 that is no success
\* (a redirect that requests has nothing to follow), a client error and a
\* server error.
StatusCodes == {200, 301, 429, 500}

\* What requests.get meets: a network error, or an HTTP response.
Responses ==
    {[kind |-> "ConnectionError", status |-> 0, body |-> {}]}
    \cup [kind : {"http"}, status : StatusCodes, body : Bodies]

None == [status |-> "None", body |-> {}]

Unset == [status |-> "unset", body |-> {}]

\* ------------------------------------------------------------ timestamps
\* datetime.strftime("%Y-%m-%d %H:%M:%S") of the instant t (in ticks): the
\* fraction of the second is dropped, minute and second are zero-padded.
strftime(t) ==
    LET sec == t \div SubPerSec
        m == (sec \div 60) % 60
        s == sec % 60
    IN <<m \div 10, m % 10, s \div 10, s % 10>>

\* pandas parse_dates: the text back to a time, in seconds.
parse_dates(d) == (d[1] * 10 + d[2]) * 60 + d[3] * 10 + d[4]

\* SQLite compares TEXT values bytewise (memcmp), a prefix sorting first.
RECURSIVE TextLess(_, _)
TextLess(a, b) ==
    IF a = <<>> THEN b # <<>>
    ELSE IF b = <<>> THEN FALSE
    ELSE IF Head(a) # Head(b) THEN Head(a) < Head(b)
    ELSE TextLess(Tail(a), Tail(b))

TextGeq(a, b) == ~TextLess(a, b)

\* ----------------------------------------------------------------- state
VARIABLES
    pc,           \* position of run: "start" (before the try block), "fetch",
                  \* "check", "save", "display", "sleep", "except", "finally",
                  \* "done" (run has ended), "exited" (the tracker process is gone)
    interval,     \* run's interval argument, in ticks
    now,          \* the wall clock, in ticks
    response,     \* what the last requests.get met: its kind and status code
    crypto_data,  \* run's local: the last value fetch_crypto_data returned
    timestamp,    \* save_to_database's local
    idx,          \* position of the loop over cryptos in progress
                  \* (save_to_database's, then display_latest_stored_data's)
    store,        \* committed rows of crypto_prices, in rowid order
    pending,      \* rows inserted by the open transaction, not yet committed
    connOpen,     \* self.conn is open
    raised,       \* the exception last raised in run: "none", "KeyboardInterrupt",
                  \* "KeyError", "OperationalError"
    discarded,    \* rows of the open transaction lost when conn.close() ran
    fetches,      \* fetch attempts so far
    sleeps,       \* sleeps completed so far
    inserted,     \* history: the samples of every committed cycle, with capture instant
    shown,        \* the lines display_latest_stored_data printed in its last call
    view          \* the result of the last read-side operation

vars == <<pc, interval, now, response, crypto_data, timestamp, idx, store, pending,
          connOpen, raised, discarded, fetches, sleeps, inserted, shown, view>>

pollerVars == <<pc, interval, now, response, crypto_data, timestamp, idx, store, pending,
                connOpen, raised, discarded, fetches, sleeps, inserted, shown>>

NoResponse == [kind |-> "none", status |-> 0]

NoView == [op |-> "none", since |-> <<>>, crypto |-> "", rows |-> <<>>,
           listed |-> <<>>, nodata |-> <<>>, change |-> <<>>, raised |-> "none",
           next |-> 0, seen |-> <<>>]

\* CryptoTracker.__init__ and setup_database on a fresh database, then run(interval).
Init ==
    /\ pc = "start"
    /\ interval \in 0..MaxInterval
    /\ now \in {StartSec * SubPerSec + k : k \in 0..(SubPerSec - 1)}
    /\ response = NoResponse
    /\ crypto_data = Unset
    /\ timestamp = <<>>
    /\ idx = 1
    /\ store = <<>>
    /\ pending = <<>>
    /\ connOpen = TRUE
    /\ raised = "none"
    /\ discarded = 0
    /\ fetches = 0
    /\ sleeps = 0
    /\ inserted = <<>>
    /\ shown = <<>>
    /\ view = NoView

\* ---------------------------------------------------------------- poller
\* fetch_crypto_data: response.raise_for_status() raises for 4xx/5xx, and any
\* requests.RequestException is caught and turned into None.
fetch_crypto_data(resp) ==
    IF resp.kind # "http" THEN None
    ELSE IF resp.status >= 400 /\ resp.status < 600 THEN None
    ELSE [status |-> "json", body |-> resp.body]

\* Python truthiness of run's crypto_data: None and {} are falsy.
Truthy(cd) == cd.status = "json" /\ cd.body # {}

Has(cd, crypto) == \E e \in cd.body : e.id = crypto

Get(cd, crypto) == CHOOSE e \in cd.body : e.id = crypto

\* The INSERT with market cap and volume bound to each other's column.
InsertRowSwapped(crypto, data, ts) ==
    [cryptocurrency |-> crypto,
     price_usd |-> data.usd,
     market_cap_usd |-> data.usd_24h_vol,
     volume_usd |-> data.usd_market_cap,
     timestamp |-> ts]

\* The row one INSERT of save_to_database writes.
InsertRow(crypto, data, ts) ==
    [cryptocurrency |-> crypto,
     price_usd |-> data.usd,
     market_cap_usd |-> data.usd_market_cap,
     volume_usd |-> data.usd_24h_vol,
     timestamp |-> ts]

\* run: crypto_data = self.fetch_crypto_data()
Fetch ==
    /\ pc = "fetch"
    /\ fetches < MaxCycles
    /\ \E resp \in Responses :
        /\ response' = [kind |-> resp.kind, status |-> resp.status]
        /\ crypto_data' = fetch_crypto_data(resp)
    /\ fetches' = fetches + 1
    /\ pc' = "check"
    /\ UNCHANGED <<interval, now, timestamp, idx, store, pending, connOpen, raised,
                   discarded, sleeps, inserted, shown, view>>

\* run: if crypto_data: save_to_database(crypto_data) begins (its own
\* "if not crypto_data: return" guard, then the timestamp); else straight to sleep.
Check ==
    /\ pc = "check"
    /\ IF Truthy(crypto_data)
       THEN /\ pc' = "save"
            /\ timestamp' = strftime(now)
            /\ idx' = 1
       ELSE /\ pc' = "sleep"
            /\ UNCHANGED <<timestamp, idx>>
    /\ UNCHANGED <<interval, now, response, crypto_data, store, pending, connOpen,
                   raised, discarded, fetches, sleeps, inserted, shown, view>>

\* An exception leaves the calls in progress: their frames are gone.
Unwind ==
    /\ response' = NoResponse
    /\ timestamp' = <<>>
    /\ idx' = 1

\* The loop of save_to_database on a connection in autocommit mode: every INSERT
\* is committed as it is executed.
SaveInsertAutocommit ==
    /\ pc = "save"
    /\ idx <= Len(Cryptos)
    /\ IF Has(crypto_data, Cryptos[idx])
       THEN /\ store' = Append(store,
                    InsertRow(Cryptos[idx], Get(crypto_data, Cryptos[idx]), timestamp))
            /\ idx' = idx + 1
            /\ UNCHANGED <<pc, connOpen, raised, discarded, pending>>
            /\ UNCHANGED <<response, crypto_data, timestamp>>
       ELSE /\ raised' = "KeyError"
            /\ Unwind
            /\ pc' = "finally"
            /\ UNCHANGED <<store, crypto_data, pending, connOpen, discarded>>
    /\ UNCHANGED <<interval, now, fetches, sleeps, inserted, shown, view>>

\* save_to_database, one turn of "for crypto in cryptos": data = crypto_data[crypto]
\* raises KeyError for an asset the result lacks; no except clause of run catches
\* it, so it goes to the finally clause with the transaction still open.
SaveInsert ==
    /\ pc = "save"
    /\ idx <= Len(Cryptos)
    /\ IF Has(crypto_data, Cryptos[idx])
       THEN /\ pending' = Append(pending,
                    InsertRow(Cryptos[idx], Get(crypto_data, Cryptos[idx]), timestamp))
            /\ idx' = idx + 1
            /\ UNCHANGED <<pc, connOpen, raised, discarded>>
            /\ UNCHANGED <<response, crypto_data, timestamp>>
       ELSE /\ raised' = "KeyError"
            /\ Unwind
            /\ pc' = "finally"
            /\ UNCHANGED <<crypto_data, pending, connOpen, discarded>>
    /\ UNCHANGED <<interval, now, store, fetches, sleeps, inserted, shown, view>>

\* save_to_database: self.conn.commit() after the loop, and the return to run.
\* The commit needs the file to itself: where another connection keeps its lock
\* past the timeout it raises sqlite3.OperationalError ("database is locked"),
\* which no except clause of run catches; the transaction is still open then.
SaveCommit ==
    /\ pc = "save"
    /\ idx > Len(Cryptos)
    /\ \/ /\ store' = store \o pending
          /\ inserted' = inserted \o
                 [i \in 1..Len(pending) |->
                     [cryptocurrency |-> pending[i].cryptocurrency,
                      data |-> Get(crypto_data, pending[i].cryptocurrency),
                      at |-> now]]
          /\ pending' = <<>>
          /\ idx' = 1
          /\ pc' = "display"
          /\ UNCHANGED <<response, timestamp, raised>>
       \/ /\ raised' = "OperationalError"
          /\ Unwind
          /\ pc' = "finally"
          /\ UNCHANGED <<store, inserted, pending>>
    /\ UNCHANGED <<interval, now, crypto_data, connOpen, discarded, fetches, sleeps,
                   shown, view>>

\* Rows of one asset, in the order given.
OfCrypto(rows, crypto) == SelectSeq(rows, LAMBDA r : r.cryptocurrency = crypto)

\* The columns both "latest" queries select, with the asset the row is of.
LatestColumns(r) ==
    [cryptocurrency |-> r.cryptocurrency, price_usd |-> r.price_usd, timestamp |-> r.timestamp]

\* What "SELECT price_usd, timestamp ... WHERE cryptocurrency = ? ORDER BY timestamp
\* DESC LIMIT 1" may return: the columns of any row of the asset that no row of the
\* asset is later than (the order among rows of equal timestamp is not defined).
LatestOf(rows, crypto) ==
    LET mine == OfCrypto(rows, crypto)
    IN {LatestColumns(mine[j]) : j \in {i \in 1..Len(mine) :
            \A k \in 1..Len(mine) : ~TextLess(mine[i].timestamp, mine[k].timestamp)}}

\* display_latest_stored_data, the turn of one crypto after the lines in printed:
\* fetchone() of the query, and a line only for an asset that has a row.
display_latest_stored_data(rows, crypto, printed) ==
    IF LatestOf(rows, crypto) = {} THEN {printed}
    ELSE {Append(printed, r) : r \in LatestOf(rows, crypto)}

\* run: display_current_prices(crypto_data), then display_latest_stored_data(),
\* one turn of its "for crypto in [...]" per step.
Display ==
    /\ pc = "display"
    /\ idx <= Len(Cryptos)
    /\ shown' \in display_latest_stored_data(store, Cryptos[idx],
                                             IF idx = 1 THEN <<>> ELSE shown)
    /\ IF idx = Len(Cryptos)
       THEN pc' = "sleep" /\ idx' = 1
       ELSE pc' = pc /\ idx' = idx + 1
    /\ UNCHANGED <<interval, now, response, crypto_data, timestamp, store, pending,
                   connOpen, raised, discarded, fetches, sleeps, inserted, view>>

\* run: time.sleep(interval).  The sleep lasts the interval; the wall clock reads
\* that much later after it, less what it was set back by meanwhile (the end of
\* daylight saving time, a correction of the clock).
Sleep ==
    /\ pc = "sleep"
    /\ \E back \in 0..MaxSetBack : now' = now + interval - back * SubPerSec
    /\ sleeps' = sleeps + 1
    /\ pc' = "fetch"
    /\ UNCHANGED <<interval, response, crypto_data, timestamp, idx, store, pending,
                   connOpen, raised, discarded, fetches, inserted, shown, view>>

\* run: the two print calls before the try block.
Start ==
    /\ pc = "start"
    /\ pc' = "fetch"
    /\ UNCHANGED <<interval, now, response, crypto_data, timestamp, idx, store, pending,
                   connOpen, raised, discarded, fetches, sleeps, inserted, shown, view>>

\* run: Ctrl+C inside the try block raises KeyboardInterrupt where the loop is,
\* and "except KeyboardInterrupt" catches it.
Interrupt ==
    /\ pc \in {"fetch", "check", "save", "display", "sleep"}
    /\ raised' = "KeyboardInterrupt"
    /\ Unwind
    /\ pc' = "except"
    /\ UNCHANGED <<interval, now, crypto_data, store, pending, connOpen, discarded,
                   fetches, sleeps, inserted, shown, view>>

\* run: the print of the except clause.  (A Ctrl+C during it also goes on to the
\* finally clause, with the same state.)
Except ==
    /\ pc = "except"
    /\ pc' = "finally"
    /\ UNCHANGED <<interval, now, response, crypto_data, timestamp, idx, store, pending,
                   connOpen, raised, discarded, fetches, sleeps, inserted, shown, view>>

\* run: "finally: self.conn.close()".  Closing without a commit rolls the open
\* transaction back; run then returns, or lets the KeyError or OperationalError
\* through.
Finally ==
    /\ pc = "finally"
    /\ discarded' = Len(pending)
    /\ pending' = <<>>
    /\ connOpen' = FALSE
    /\ crypto_data' = Unset
    /\ pc' = "done"
    /\ UNCHANGED <<interval, now, response, timestamp, idx, store, raised,
                   fetches, sleeps, inserted, shown, view>>

\* Ctrl+C once the finally clause is entered: the interpreter raises the
\* KeyboardInterrupt when the call of conn.close() has returned, so the
\* connection is closed and the open transaction rolled back, and
\* KeyboardInterrupt leaves run in place of whatever was on its way out.
InterruptFinally ==
    /\ pc = "finally"
    /\ raised' = "KeyboardInterrupt"
    /\ discarded' = Len(pending)
    /\ pending' = <<>>
    /\ connOpen' = FALSE
    /\ crypto_data' = Unset
    /\ pc' = "done"
    /\ UNCHANGED <<interval, now, response, timestamp, idx, store,
                   fetches, sleeps, inserted, shown, view>>

\* Ctrl+C at the prints before the try block, where no handler of run covers it:
\* KeyboardInterrupt leaves run and the connection stays open.
InterruptUnhandled ==
    /\ pc = "start"
    /\ raised' = "KeyboardInterrupt"
    /\ crypto_data' = Unset
    /\ pc' = "done"
    /\ UNCHANGED <<interval, now, response, timestamp, idx, store, pending, connOpen,
                   discarded, fetches, sleeps, inserted, shown, view>>

\* The tracker script ends once run has returned or let its exception through:
\* the process and its state are gone (a connection still open goes with it, its
\* open transaction uncommitted), the database file and the clock remain.
Exit ==
    /\ pc = "done"
    /\ pc' = "exited"
    /\ interval' = 0
    /\ raised' = "none"
    /\ discarded' = 0
    /\ fetches' = 0
    /\ sleeps' = 0
    /\ shown' = <<>>
    /\ pending' = <<>>
    /\ connOpen' = FALSE
    /\ UNCHANGED <<now, response, crypto_data, timestamp, idx, store, inserted, view>>

LoopStep == Fetch \/ Check \/ SaveInsert \/ SaveCommit \/ Display \/ Sleep

NextPoller ==
    \/ Start
    \/ LoopStep
    \/ Interrupt
    \/ Except
    \/ Finally
    \/ InterruptFinally
    \/ InterruptUnhandled
    \/ Exit

\* --------------------------------------------------------------- readers
\* ORDER BY timestamp ASC: r goes after every row of s that is not later than it
\* (rows of equal timestamp stay in rowid order).
RECURSIVE InsertSorted(_, _)
InsertSorted(s, r) ==
    IF s = <<>> THEN <<r>>
    ELSE IF TextLess(r.timestamp, Head(s).timestamp) THEN <<r>> \o s
    ELSE <<Head(s)>> \o InsertSorted(Tail(s), r)

RECURSIVE OrderByTimestamp(_)
OrderByTimestamp(rows) ==
    IF rows = <<>> THEN <<>>
    ELSE InsertSorted(OrderByTimestamp(SubSeq(rows, 1, Len(rows) - 1)), rows[Len(rows)])

\* The range query without its ORDER BY clause: the rows come in rowid order.
fetch_historical_data_unordered(rows, time_threshold) ==
    SelectSeq(rows, LAMBDA r : TextGeq(r.timestamp, time_threshold))

\* CryptoDashboard.fetch_historical_data: WHERE timestamp >= ? ORDER BY timestamp ASC
fetch_historical_data(rows, time_threshold) ==
    OrderByTimestamp(SelectSeq(rows, LAMBDA r : TextGeq(r.timestamp, time_threshold)))

\* CryptoVisualizer.fetch_data runs the same query.
fetch_data(rows, time_threshold) ==
    OrderByTimestamp(SelectSeq(rows, LAMBDA r : TextGeq(r.timestamp, time_threshold)))

\* CryptoDashboard.fetch_latest_prices: cryptocurrency, price_usd and timestamp of
\* every row whose (cryptocurrency, timestamp) is one of the pairs
\* (cryptocurrency, MAX(timestamp)) of the grouped subquery.
fetch_latest_prices(rows) ==
    LET hits == SelectSeq(rows, LAMBDA r :
                    \A k \in 1..Len(rows) :
                        rows[k].cryptocurrency = r.cryptocurrency
                            => ~TextLess(r.timestamp, rows[k].timestamp))
    IN [i \in 1..Len(hits) |-> LatestColumns(hits[i])]

\* The double arithmetic of the price change, where it decides the output.  With
\* a = |last_price - first_price| and f = first_price, FloatSide(a, f) is the
\* sign of fl(fl(a / f) * 100) - 100 * a / f: on which side of the exact value
\* the double lies that the two float operations give (0: on it).
\*
\* The 52 fraction bits of the quotient num / den (in [1, 2)) by long division,
\* four bits to the step: after k steps, the last eight bits of the significand
\* so far and the remainder.
RECURSIVE DivideBits(_, _, _)
DivideBits(num, den, k) ==
    IF k = 0 THEN [low |-> 1, r |-> num - den]
    ELSE LET prev == DivideBits(num, den, k - 1)
         IN [low |-> (16 * prev.low + (16 * prev.r) \div den) % 256,
             r |-> (16 * prev.r) % den]

RECURSIVE ScaleUp(_, _)
ScaleUp(num, den) == IF num < den THEN ScaleUp(2 * num, den) ELSE num

RECURSIVE ScaleDown(_, _)
ScaleDown(num, den) == IF num >= 2 * den THEN ScaleDown(num, 2 * den) ELSE den

FloatSide(a, f) ==
    LET num == IF a = 0 THEN f ELSE ScaleUp(a, f)
        den == ScaleDown(num, f)
        d == DivideBits(num, den, 13)
        \* the division rounds to nearest, ties to the even significand
        divUp == 2 * d.r > den \/ (2 * d.r = den /\ d.low % 2 = 1)
        low == IF divUp THEN (d.low + 1) % 256 ELSE d.low
        \* (significand * den - num * 2^52): the error of the quotient
        e == IF divUp THEN den - d.r ELSE -d.r
        \* 100 * significand has 60 bits when the quotient is 1.28 or more, else 59:
        \* the product drops t bits
        t == IF 25 * num > 32 * den \/ (25 * num = 32 * den /\ e >= 0) THEN 7 ELSE 6
        p == (100 * low) % (2 ^ (t + 1))
        dropped == p % (2 ^ t)
        half == 2 ^ (t - 1)
        mulUp == dropped > half \/ (dropped = half /\ p >= 2 ^ t)
        delta == IF mulUp THEN 2 ^ t - dropped ELSE -dropped
        side == 100 * e + delta * den
    IN IF side > 0 THEN 1 ELSE IF side < 0 THEN -1 ELSE 0

\* ((last_price - first_price) / first_price) * 100 as "{price_change:.2f}%" shows
\* it, in hundredths of a percent, for a first price other than 0.  The format
\* rounds the double to the nearest hundredth, ties to the even one; the double
\* is off the exact value by far less than any exact value is off a halfway
\* point, so only for an exact value halfway does its side matter.
price_change(first_price, last_price) ==
    LET a == IF last_price < first_price THEN first_price - last_price
             ELSE last_price - first_price
        h == (a * 10000) \div first_price
        r == (a * 10000) % first_price
        side == FloatSide(a, first_price)
        hundredths ==
            IF 2 * r < first_price THEN h
            ELSE IF 2 * r > first_price THEN h + 1
            ELSE IF side > 0 THEN h + 1
            ELSE IF side < 0 THEN h
            ELSE IF h % 2 = 0 THEN h ELSE h + 1
    IN IF last_price < first_price THEN -hundredths ELSE hundredths

\* The same expression over the numpy.float64 values that .iloc[0] and .iloc[-1]
\* return: a division by 0 raises nothing and gives inf, -inf or nan, shown as
\* "inf%", "-inf%" and "nan%".
price_change_float64(first_price, last_price) ==
    IF first_price # 0
    THEN [kind |-> "finite", value |-> price_change(first_price, last_price)]
    ELSE IF last_price > first_price THEN [kind |-> "inf", value |-> 0]
    ELSE IF last_price < first_price THEN [kind |-> "-inf", value |-> 0]
    ELSE [kind |-> "nan", value |-> 0]

\* query_crypto_history, the turn of one crypto after the output out: the
\* per-asset query (WHERE cryptocurrency = ? AND timestamp >= ? ORDER BY timestamp
\* ASC) over the rows committed at that moment, then either the history and the
\* price change, or "No data available for this time period".  The price change
\* divides Python floats: a first price of 0 raises.
query_crypto_history(rows, time_threshold, crypto, out) ==
    LET results == OfCrypto(fetch_data(rows, time_threshold), crypto)
    IN IF results = <<>>
       THEN [out EXCEPT !.nodata = Append(@, crypto)]
       ELSE IF results[1].price_usd = 0
       THEN [out EXCEPT !.listed = Append(@, crypto), !.raised = "ZeroDivisionError"]
       ELSE [out EXCEPT !.listed = Append(@, crypto),
                        !.change = Append(@,
                            [crypto |-> crypto,
                             kind |-> "finite",
                             value |-> price_change(results[1].price_usd,
                                                    results[Len(results)].price_usd)])]

\* CryptoVisualizer.plot_price_comparison, from crypto number i on:
\* crypto_data['price_usd'].iloc[0] is out of bounds on an empty selection.
RECURSIVE plot_price_comparison(_, _, _)
plot_price_comparison(rows, time_threshold, i) ==
    IF i > Len(Cryptos)
    THEN [listed |-> <<>>, nodata |-> <<>>, change |-> <<>>, raised |-> "none"]
    ELSE
        LET crypto_rows == OfCrypto(fetch_data(rows, time_threshold), Cryptos[i])
            rest == plot_price_comparison(rows, time_threshold, i + 1)
        IN IF crypto_rows = <<>>
           THEN [listed |-> <<>>, nodata |-> <<>>, change |-> <<>>, raised |-> "IndexError"]
           ELSE [rest EXCEPT !.listed = <<Cryptos[i]>> \o @]

\* CryptoVisualizer.plot_price_trends: one line per crypto, empty or not.
plot_price_trends(rows, time_threshold) ==
    [listed |-> Cryptos, nodata |-> <<>>, change |-> <<>>, raised |-> "none"]

\* CryptoVisualizer.plot_market_metrics: three panels of one crypto, empty or not.
plot_market_metrics(rows, time_threshold, crypto) ==
    [listed |-> <<crypto>>, nodata |-> <<>>, change |-> <<>>, raised |-> "none"]

\* CryptoVisualizer.generate_summary_statistics, from crypto number i on: an asset
\* without rows in the window gets no entry.
RECURSIVE generate_summary_statistics(_, _, _)
generate_summary_statistics(rows, time_threshold, i) ==
    IF i > Len(Cryptos)
    THEN [listed |-> <<>>, nodata |-> <<>>, change |-> <<>>, raised |-> "none"]
    ELSE
        LET crypto_rows == OfCrypto(fetch_data(rows, time_threshold), Cryptos[i])
            rest == generate_summary_statistics(rows, time_threshold, i + 1)
            first_price == crypto_rows[1].price_usd
            last_price == crypto_rows[Len(crypto_rows)].price_usd
            change == price_change_float64(first_price, last_price)
        IN IF crypto_rows = <<>> THEN rest
           ELSE [rest EXCEPT !.listed = <<Cryptos[i]>> \o @,
                             !.change = <<[crypto |-> Cryptos[i],
                                           kind |-> change.kind,
                                           value |-> change.value]>>
                                        \o @]

\* time_threshold = (datetime.now() - timedelta(hours=hours)).strftime(...), for
\* the clock reading t and a look back of back seconds.
time_threshold(t, back) == strftime(t - back * SubPerSec)

Plain == [listed |-> <<>>, nodata |-> <<>>, change |-> <<>>, raised |-> "none"]

\* The read-side scripts are separate processes over the database file: they see
\* the committed rows only, and nothing keeps the tracker from committing while
\* they run.  A reader keeps no state between invocations, so one invocation is
\* observed per behaviour.  An operation first reads the clock for its threshold
\* and later runs its SELECT (the history query one SELECT per asset): view.next
\* is the number of the SELECT to come (0: none), view.seen the number of rows
\* that were committed at each SELECT run so far.
TakeThreshold(op, crypto) ==
    /\ view.op = "none"
    /\ \E back \in 0..MaxLookback :
        view' = [NoView EXCEPT !.op = op, !.crypto = crypto,
                               !.since = time_threshold(now, back), !.next = 1]
    /\ UNCHANGED pollerVars

Selecting(op) == view.op = op /\ view.next > 0

\* The view once the SELECT to come has run over the committed rows.
Outcome(rows, out) ==
    [view EXCEPT !.rows = rows, !.listed = out.listed, !.nodata = out.nodata,
                 !.change = out.change, !.raised = out.raised,
                 !.next = 0, !.seen = Append(@, Len(store))]

\* fetch_latest_prices reads no clock and runs one SELECT.  It is observed once
\* the tracker has exited: an interrupt can stop the tracker after any step, so
\* every committed content is covered.
CanRead == pc = "exited" /\ view.op = "none"

ReadLatestPrices ==
    /\ CanRead
    /\ view' = [NoView EXCEPT !.op = "fetch_latest_prices",
                              !.rows = fetch_latest_prices(store),
                              !.seen = <<Len(store)>>]
    /\ UNCHANGED pollerVars

\* CryptoDashboard.fetch_historical_data: the threshold, then the query.
ReadHistoricalData ==
    \/ TakeThreshold("fetch_historical_data", "")
    \/ /\ Selecting("fetch_historical_data")
       /\ view' = Outcome(fetch_historical_data(store, view.since), Plain)
       /\ UNCHANGED pollerVars

\* CryptoVisualizer.fetch_data: the threshold, then the query.
ReadFetchData ==
    \/ TakeThreshold("fetch_data", "")
    \/ /\ Selecting("fetch_data")
       /\ view' = Outcome(fetch_data(store, view.since), Plain)
       /\ UNCHANGED pollerVars

\* query_crypto_history: the threshold, then one turn of "for crypto in [...]"
\* per step, each with its own SELECT.
ReadQueryHistory ==
    \/ TakeThreshold("query_crypto_history", "")
    \/ /\ Selecting("query_crypto_history")
       /\ LET i == view.next
              out == query_crypto_history(store, view.since, Cryptos[i],
                         [listed |-> view.listed, nodata |-> view.nodata,
                          change |-> view.change, raised |-> view.raised])
          IN view' = [Outcome(<<>>, out)
                        EXCEPT !.next = IF out.raised # "none" \/ i = Len(Cryptos)
                                        THEN 0 ELSE i + 1]
       /\ UNCHANGED pollerVars

\* The operations of CryptoVisualizer begin with fetch_data(hours): the
\* threshold, then the query, and the rest over the rows it returned.
ReadPriceTrends ==
    \/ TakeThreshold("plot_price_trends", "")
    \/ /\ Selecting("plot_price_trends")
       /\ view' = Outcome(<<>>, plot_price_trends(store, view.since))
       /\ UNCHANGED pollerVars

ReadPriceComparison ==
    \/ TakeThreshold("plot_price_comparison", "")
    \/ /\ Selecting("plot_price_comparison")
       /\ view' = Outcome(<<>>, plot_price_comparison(store, view.since, 1))
       /\ UNCHANGED pollerVars

ReadMarketMetrics ==
    \/ \E crypto \in Assets : TakeThreshold("plot_market_metrics", crypto)
    \/ /\ Selecting("plot_market_metrics")
       /\ view' = Outcome(<<>>, plot_market_metrics(store, view.since, view.crypto))
       /\ UNCHANGED pollerVars

ReadSummaryStatistics ==
    \/ TakeThreshold("generate_summary_statistics", "")
    \/ /\ Selecting("generate_summary_statistics")
       /\ view' = Outcome(<<>>, generate_summary_statistics(store, view.since, 1))
       /\ UNCHANGED pollerVars

\* The two range queries.
NextRangeReader == ReadHistoricalData \/ ReadFetchData

NextReader ==
    \/ ReadLatestPrices
    \/ NextRangeReader
    \/ ReadQueryHistory
    \/ ReadPriceTrends
    \/ ReadPriceComparison
    \/ ReadMarketMetrics
    \/ ReadSummaryStatistics

Next == NextPoller \/ NextReader

\* The tracker and the read-side scripts.
Spec == Init /\ [][Next]_vars

\* The tracker alone: no reader writes anything the tracker reads.
PollerSpec == Init /\ [][NextPoller]_vars

\* The tracker and the dashboard's latest prices.
LatestNext == NextPoller \/ ReadLatestPrices

LatestSpec == Init /\ [][LatestNext]_vars

\* The tracker and a range query running beside it.
RangeNext == NextPoller \/ NextRangeReader

RangeSpec == Init /\ [][RangeNext]_vars

\* ------------------------------------------------- the price change alone
\* The price change is a function of the rows of the window.  It is examined
\* over the databases the tracker leaves after up to MaxSamples cycles that all
\* stored both assets, with prices that make the quotient worth computing:
\* 100 -> 110 is a whole percentage, 160 -> 183 lies halfway between two
\* hundredths (14.375), and 0 is the price no change can be taken from.
QuotedPrices == {0, 100, 110, 160, 183}

\* The results of fetch_crypto_data that carry every asset.
FullResults ==
    {[status |-> "json",
      body |-> {[id |-> c, usd |-> p[c], usd_market_cap |-> cap, usd_24h_vol |-> vol] :
                    c \in Assets}] :
        p \in [Assets -> QuotedPrices], cap \in MarketCaps, vol \in Volumes}

\* The rows save_to_database commits for the result cd fetched at instant t.
CycleRows(cd, t) ==
    [i \in 1..Len(Cryptos) |-> InsertRow(Cryptos[i], Get(cd, Cryptos[i]), strftime(t))]

CycleSamples(cd, t) ==
    [i \in 1..Len(Cryptos) |->
        [cryptocurrency |-> Cryptos[i], data |-> Get(cd, Cryptos[i]), at |-> t]]

\* The table after cycles k..n of a run started at t0 with the interval iv.
RECURSIVE Committed(_, _, _, _, _)
Committed(cds, n, t0, iv, k) ==
    IF k > n THEN <<>>
    ELSE CycleRows(cds[k], t0 + (k - 1) * iv) \o Committed(cds, n, t0, iv, k + 1)

RECURSIVE CommittedSamples(_, _, _, _, _)
CommittedSamples(cds, n, t0, iv, k) ==
    IF k > n THEN <<>>
    ELSE CycleSamples(cds[k], t0 + (k - 1) * iv) \o CommittedSamples(cds, n, t0, iv, k + 1)

\* The tracker has run n cycles, was interrupted before or after the sleep of
\* the last one, and has exited.
HistoryInit ==
    /\ \E n \in 0..MaxSamples, iv \in 0..MaxInterval, slept \in 0..1,
          t0 \in {StartSec * SubPerSec + k : k \in 0..(SubPerSec - 1)} :
        \E cds \in [1..n -> FullResults] :
            /\ store = Committed(cds, n, t0, iv, 1)
            /\ inserted = CommittedSamples(cds, n, t0, iv, 1)
            /\ now = t0 + ((IF n = 0 THEN 0 ELSE n - 1) + slept) * iv
    /\ pc = "exited"
    /\ interval = 0
    /\ response = NoResponse
    /\ crypto_data = Unset
    /\ timestamp = <<>>
    /\ idx = 1
    /\ pending = <<>>
    /\ connOpen = FALSE
    /\ raised = "none"
    /\ discarded = 0
    /\ fetches = 0
    /\ sleeps = 0
    /\ shown = <<>>
    /\ view = NoView

HistoryNext == ReadQueryHistory \/ ReadSummaryStatistics

HistorySpec == HistoryInit /\ [][HistoryNext]_vars

\* ================================================================ claims
\* A fetch fails on a network error or on a response outside 2xx.
FailedFetch(resp) ==
    \/ resp.kind = "ConnectionError"
    \/ resp.kind = "http" /\ ~(resp.status >= 200 /\ resp.status < 300)

\* The iteration whose fetch failed, between the return of the fetch and the
\* end of the sleep.
InFailedCycle == pc \in {"check", "sleep"} /\ FailedFetch(response)

\* C1: a failed fetch returns an empty/none result and changes no committed row;
\* for the rest of that iteration nothing is inserted, committed or displayed,
\* the loop goes on to its sleep and to the next fetch, and run ends during the
\* iteration only by an interrupt (no exception of the fetch leaves run).
C1_FailedFetchSkipsCycle ==
    [][ /\ (pc = "fetch" /\ pc' = "check" /\ FailedFetch(response'))
            => /\ ~Truthy(crypto_data')
               /\ store' = store
               /\ raised' = "none"
        /\ InFailedCycle
            => /\ store' = store
               /\ pending' = <<>>
               /\ shown' = shown
               /\ pc' \in {pc, "sleep", "fetch", "except"}
               /\ (pc = "check" /\ pc' # pc /\ pc' # "except" => pc' = "sleep")
               /\ (pc' = "except" => raised' = "KeyboardInterrupt")
      ]_vars

\* What a "latest row per asset" result must be: at most one row per asset, each a
\* stored row no stored row of its asset is later than; nothing for an empty table.
LatestOK(rows, out) ==
    /\ \A i, j \in 1..Len(out) : out[i].cryptocurrency = out[j].cryptocurrency => i = j
    /\ \A i \in 1..Len(out) :
        /\ \E k \in 1..Len(rows) : LatestColumns(rows[k]) = out[i]
        /\ \A k \in 1..Len(rows) :
            rows[k].cryptocurrency = out[i].cryptocurrency
                => parse_dates(out[i].timestamp) >= parse_dates(rows[k].timestamp)
    /\ (rows = <<>> => out = <<>>)

\* C2: latest_per_asset returns at most one row per asset of the store, a row with
\* the greatest timestamp of its asset, and nothing on an empty store; both for the
\* dashboard's fetch_latest_prices and for the tracker's display_latest_stored_data.
C2_LatestAtMostOnePerAsset ==
    /\ (view.op = "fetch_latest_prices" => LatestOK(store, view.rows))
    /\ (pc = "sleep" => LatestOK(store, shown))

\* The rows the claim expects of persist: one per asset present in the result.
RECURSIVE PresentRows(_, _, _)
PresentRows(cd, ts, i) ==
    IF i > Len(Cryptos) THEN <<>>
    ELSE (IF Has(cd, Cryptos[i]) THEN <<InsertRow(Cryptos[i], Get(cd, Cryptos[i]), ts)>>
          ELSE <<>>)
         \o PresentRows(cd, ts, i + 1)

\* C3: when persist ends on its own (it returns, or an error of its own ends it),
\* the store has gained exactly one row for each asset present in the result, with
\* the cycle's timestamp; an empty or failed result leaves the store as it was.
C3_PersistOneRowPerPresentAsset ==
    [][ /\ (pc = "save" /\ pc' # "save" /\ raised' # "KeyboardInterrupt")
            => store' = store \o PresentRows(crypto_data, strftime(now), 1)
        /\ (pc = "check" /\ ~Truthy(crypto_data)) => store' = store
      ]_vars

\* C4: the loop is left, and run has ended, only if an interrupt occurred; and
\* whenever run has ended the connection is closed.
C4_EndsOnlyOnInterrupt ==
    /\ (pc \in {"except", "finally", "done"} => raised = "KeyboardInterrupt")
    /\ (pc = "done" => ~connOpen)

\* C5: the committed rows are whole cycles: they come in groups of one row per
\* tracked asset, in the order of the tracked assets, sharing the cycle's timestamp;
\* and the open transaction never holds more than the cycle in progress, nothing
\* of which is left once the connection is closed.
C5_NoPartialWrite ==
    /\ Len(store) % Len(Cryptos) = 0
    /\ \A i \in 1..Len(store) :
        LET k == (i - 1) % Len(Cryptos)
        IN /\ store[i].cryptocurrency = Cryptos[k + 1]
           /\ store[i].timestamp = store[i - k].timestamp
    /\ Len(pending) <= Len(Cryptos)
    /\ (~connOpen => pending = <<>>)

\* C5 witness: run was interrupted between the two inserts of a cycle that followed
\* a committed one, and the insert made so far was discarded by the close.
C5_Witness ==
    /\ pc = "done"
    /\ ~connOpen
    /\ raised = "KeyboardInterrupt"
    /\ discarded = 1
    /\ Len(store) >= Len(Cryptos)

\* Fairness of the loop's own straight-line steps: the branch on the fetch result
\* is taken and a sleep of a finite interval ends.  (The network call has no
\* timeout, so nothing is assumed of it.)
FairSpec == Init /\ [][NextPoller]_vars /\ WF_vars(Check) /\ WF_vars(Sleep)

\* C6: fetch attempts and sleeps alternate (one fetch per interval, no retry);
\* the iteration of a failed fetch does nothing but sleep once, for the interval,
\* and the loop is then at its next fetch; and, unless interrupted, it always
\* gets there.
C6_FailedFetchThenNextInterval ==
    /\ [](fetches = sleeps + (IF pc \in {"check", "save", "display", "sleep"} THEN 1 ELSE 0)
          \/ (pc \in {"except", "finally", "done"} /\ fetches - sleeps \in {0, 1})
          \/ pc = "exited")
    /\ [][InFailedCycle /\ pc' # "except"
            => \/ pc = "check" /\ pc' = "sleep" /\ fetches' = fetches /\ sleeps' = sleeps
               \/ pc = "sleep" /\ pc' = "fetch" /\ fetches' = fetches /\ sleeps' = sleeps + 1
       ]_vars
    /\ (InFailedCycle ~> (pc = "fetch" \/ raised = "KeyboardInterrupt"))

Count(seq, x) == Cardinality({i \in 1..Len(seq) : seq[i] = x})

\* A range query has returned.
IsRangeQuery == view.op \in {"fetch_historical_data", "fetch_data"} /\ view.seen # <<>>

\* The rows that were stored when the range query ran (the tracker may have
\* committed more since).
Queried == SubSeq(store, 1, view.seen[1])

\* C7: a range query returns stored rows only, each at or after since; every
\* stored row at or after since, as often as it is stored; in ascending timestamp
\* order; and nothing when since is later than every stored row.
C7_RangeQuery ==
    IsRangeQuery =>
        /\ \A i \in 1..Len(view.rows) :
            /\ parse_dates(view.rows[i].timestamp) >= parse_dates(view.since)
            /\ Count(view.rows, view.rows[i]) = Count(Queried, view.rows[i])
        /\ \A k \in 1..Len(Queried) :
            parse_dates(Queried[k].timestamp) >= parse_dates(view.since)
                => Count(view.rows, Queried[k]) = Count(Queried, Queried[k])
        /\ \A i, j \in 1..Len(view.rows) :
            i < j => parse_dates(view.rows[i].timestamp) <= parse_dates(view.rows[j].timestamp)
        /\ ((\A k \in 1..Len(Queried) :
                parse_dates(Queried[k].timestamp) < parse_dates(view.since))
            => view.rows = <<>>)

\* C7 witness: a range query that returned some of the stored rows, the first of
\* them stamped with the very second of since, and left out the others.
C7_Witness ==
    /\ IsRangeQuery
    /\ Len(view.rows) > 0
    /\ Len(view.rows) < Len(Queried)
    /\ view.rows[1].timestamp = view.since

IsPrefix(s, t) == Len(s) <= Len(t) /\ SubSeq(t, 1, Len(s)) = s

\* C8: per asset the committed rows, in insertion order, never go back in time;
\* and a committed row is never changed or removed: the store only grows at its end.
C8_AppendOnlyMonotone ==
    /\ [](\A i, j \in 1..Len(store) :
            (i < j /\ store[i].cryptocurrency = store[j].cryptocurrency)
                => parse_dates(store[i].timestamp) <= parse_dates(store[j].timestamp))
    /\ [][IsPrefix(store, store')]_vars

\* The second, within the hour, of the instant t.
SecondOf(t) == (t \div SubPerSec) % 3600

\* C9: a range query that runs after a sample was committed, with a since not
\* later than the second of the sample, returns a row with that sample's asset,
\* price, market cap and volume, and with the sample's capture time cut to the
\* second.
C9_RoundTrip ==
    IsRangeQuery =>
        \A n \in 1..view.seen[1] :
            parse_dates(view.since) <= SecondOf(inserted[n].at)
                => \E i \in 1..Len(view.rows) :
                    /\ view.rows[i].cryptocurrency = inserted[n].cryptocurrency
                    /\ view.rows[i].price_usd = inserted[n].data.usd
                    /\ view.rows[i].market_cap_usd = inserted[n].data.usd_market_cap
                    /\ view.rows[i].volume_usd = inserted[n].data.usd_24h_vol
                    /\ parse_dates(view.rows[i].timestamp) = SecondOf(inserted[n].at)

\* C9 witness: a range query that covers a sample captured within a second (its
\* fraction is cut) and later than any look back reaches from it: the tracker
\* committed the sample after the query had taken its threshold.
C9_Witness ==
    /\ IsRangeQuery
    /\ \E n \in 1..view.seen[1] :
        /\ parse_dates(view.since) + MaxLookback < SecondOf(inserted[n].at)
        /\ inserted[n].at % SubPerSec # 0

\* The asset's turn in the loops over the tracked assets.
Pos(crypto) == CHOOSE i \in 1..Len(Cryptos) : Cryptos[i] = crypto

\* The operation has read the rows of the asset: the history query reads them
\* asset by asset, every other operation at once.
Ran(crypto) ==
    IF view.op = "query_crypto_history" THEN Pos(crypto) <= Len(view.seen)
    ELSE view.seen # <<>>

\* The rows that were committed when the operation read those of the asset (the
\* table only grows, and not at all once the tracker has exited).
Seen(crypto) ==
    IF ~Ran(crypto) THEN <<>>
    ELSE IF view.op = "query_crypto_history"
    THEN SubSeq(store, 1, view.seen[Pos(crypto)])
    ELSE SubSeq(store, 1, view.seen[1])

\* The window of a read: no committed row of the asset at or after since.
EmptyWindow(crypto, since) ==
    \A k \in 1..Len(Seen(crypto)) :
        store[k].cryptocurrency = crypto
            => parse_dates(store[k].timestamp) < parse_dates(since)

InSeq(x, seq) == \E i \in 1..Len(seq) : seq[i] = x

\* C10: a read over a window that is empty for an asset does not raise; the
\* history query reports no data for that asset and the summary leaves it out.
\* (Windows holding a price of 0 are left aside: the division they break is not
\* the empty window's doing.)
C10_EmptyWindowNoError ==
    (/\ view.op \in {"fetch_historical_data", "fetch_data", "query_crypto_history",
                     "plot_price_trends", "plot_price_comparison",
                     "plot_market_metrics", "generate_summary_statistics"}
     /\ \E c \in Assets : Ran(c) /\ EmptyWindow(c, view.since)
     /\ \A k \in 1..Len(store) : store[k].price_usd # 0)
    => /\ view.raised = "none"
       /\ \A c \in Assets :
            (Ran(c) /\ EmptyWindow(c, view.since))
                => /\ (view.op = "query_crypto_history" => InSeq(c, view.nodata))
                   /\ (view.op = "generate_summary_statistics" => ~InSeq(c, view.listed))

\* The sample sequence of one asset over the window that starts at since: its
\* rows from that time on that were committed when they were read, oldest first.
Window(crypto, since) ==
    OrderByTimestamp(
        SelectSeq(Seen(crypto), LAMBDA r : /\ r.cryptocurrency = crypto
                                    /\ parse_dates(r.timestamp) >= parse_dates(since)))

IsPriceChangeOp == view.op \in {"query_crypto_history", "generate_summary_statistics"}

\* value, in hundredths of a percent, is a hundredth nearest to
\* (S[-1].price - S[0].price) / S[0].price * 100 (either neighbour, where that
\* lies halfway between two).
NearestToChange(value, S) ==
    LET first == S[1].price_usd
        last == S[Len(S)].price_usd
        off == value * first - (last - first) * 10000
    IN 2 * (IF off < 0 THEN -off ELSE off) <= first

\* Every price change the operation reports is the change from the first to the
\* last row of the asset's window, and an operation that ends without an error
\* reports one for every asset whose window starts at a price other than 0.
PercentChangeAgrees ==
    /\ \A i \in 1..Len(view.change) :
        view.change[i].kind = "finite"
            => LET S == Window(view.change[i].crypto, view.since)
               IN S # <<>> /\ S[1].price_usd # 0
                    /\ NearestToChange(view.change[i].value, S)
    /\ \A c \in Assets :
        LET S == Window(c, view.since)
        IN (Ran(c) /\ S # <<>> /\ S[1].price_usd # 0 /\ view.raised = "none")
            => \E i \in 1..Len(view.change) :
                view.change[i].crypto = c /\ view.change[i].kind = "finite"

\* A window that starts at the price 0 makes the operation fail with a division
\* by zero, and no price change is returned for that asset.
ZeroFirstPriceFails ==
    \A c \in Assets :
        LET S == Window(c, view.since)
        IN (Ran(c) /\ S # <<>> /\ S[1].price_usd = 0)
            => /\ view.raised = "ZeroDivisionError"
               /\ \A i \in 1..Len(view.change) : view.change[i].crypto # c

\* C11: for every non-empty, time-ordered sample sequence S of one asset the
\* price change is (S[-1].price - S[0].price) / S[0].price * 100, S[0] and S[-1]
\* being the first and the last row of the window in time; when S[0].price is 0
\* the operation fails with a division by zero instead of returning a value.
C11_PercentChange ==
    IsPriceChangeOp => PercentChangeAgrees /\ ZeroFirstPriceFails

\* The example of C11: bitcoin at 100 and, a second or more later, at 110 is a
\* change of 10.00 percent.
PercentChangeExample ==
    /\ IsPriceChangeOp
    /\ LET S == Window("bitcoin", view.since)
       IN /\ Len(S) = 2
          /\ S[1].price_usd = 100 /\ S[2].price_usd = 110
          /\ parse_dates(S[1].timestamp) < parse_dates(S[2].timestamp)
    /\ \E i \in 1..Len(view.change) :
        view.change[i] = [crypto |-> "bitcoin", kind |-> "finite", value |-> 1000]

\* In the example generate_summary_statistics and query_crypto_history agree.
PercentChangeExampleHolds ==
    (/\ IsPriceChangeOp
     /\ view.raised = "none"
     /\ LET S == Window("bitcoin", view.since)
        IN Len(S) = 2 /\ S[1].price_usd = 100 /\ S[2].price_usd = 110)
    => \E i \in 1..Len(view.change) :
        view.change[i] = [crypto |-> "bitcoin", kind |-> "finite", value |-> 1000]

====
